---- MODULE Spec2Model ----
(***************************************************************************)
(* Model of the label extraction service of main.py: the handler           *)
(* parse_label and the pipeline of call_gemini (credential check, payload, *)
(* upstream POST, status check, envelope unwrapping, text-to-JSON repair), *)
(* followed by the normalisation into the response and the response_model  *)
(* validation declared on the route.                                       *)
(*                                                                         *)
(* Strings are sequences of one-character strings.  JSON values are        *)
(* records [kind, num, str, arr, obj]; a dict is a function from keys to   *)
(* values (so equality ignores member order, as in Python), a list is a    *)
(* sequence of values.                                                     *)
(***************************************************************************)
EXTENDS Integers, Sequences, FiniteSets, TLC

(***************************************************************************)
(* JSON values (what json.loads / resp.json() produce).                    *)
(***************************************************************************)
Unset == [kind |-> "unset", num |-> 0, str |-> <<>>, arr |-> <<>>, obj |-> <<>>]
JNull == [Unset EXCEPT !.kind = "null"]
JBool(b) == [Unset EXCEPT !.kind = "bool", !.num = IF b THEN 1 ELSE 0]
JNum(n) == [Unset EXCEPT !.kind = "num", !.num = n]
JStr(s) == [Unset EXCEPT !.kind = "str", !.str = s]
JArr(items) == [Unset EXCEPT !.kind = "arr", !.arr = items]
JObj(d) == [Unset EXCEPT !.kind = "obj", !.obj = d]
EmptyDict == JObj(<<>>)

\* d[k] = v on a Python dict: a repeated key keeps the last value.
DictSet(d, k, v) == [x \in (DOMAIN d) \cup {k} |-> IF x = k THEN v ELSE d[x]]

\* Python truthiness of a JSON value (the left operand of `or`).
Truthy(v) ==
    CASE v.kind = "null" -> FALSE
      [] v.kind = "bool" -> v.num = 1
      [] v.kind = "num" -> v.num # 0
      [] v.kind = "str" -> Len(v.str) > 0
      [] v.kind = "arr" -> Len(v.arr) > 0
      [] v.kind = "obj" -> DOMAIN v.obj # {}
      [] OTHER -> FALSE

(***************************************************************************)
(* Python str operations used by call_gemini.                              *)
(***************************************************************************)
\* Characters str.strip() removes (the ASCII ones of str.isspace()).
PyWhitespace == {" ", "\n", "\t", "\r"}

RECURSIVE LStrip(_, _)
LStrip(s, chars) ==
    IF Len(s) > 0 /\ s[1] \in chars THEN LStrip(Tail(s), chars) ELSE s

RECURSIVE RStrip(_, _)
RStrip(s, chars) ==
    IF Len(s) > 0 /\ s[Len(s)] \in chars
    THEN RStrip(SubSeq(s, 1, Len(s) - 1), chars)
    ELSE s

\* s.strip() and s.strip(chars)
Strip(s, chars) == RStrip(LStrip(s, chars), chars)

StartsWith(s, p) == Len(s) >= Len(p) /\ SubSeq(s, 1, Len(p)) = p

LowerChar(c) ==
    CASE c = "J" -> "j"
      [] c = "S" -> "s"
      [] c = "O" -> "o"
      [] c = "N" -> "n"
      [] OTHER -> c

\* s.lower(), on the letters of the model's alphabet
Lower(s) == [i \in 1..Len(s) |-> LowerChar(s[i])]

\* s[a:b] with 0 <= a, Python's 0-based half-open slice
Slice(s, a, b) == SubSeq(s, a + 1, IF b < Len(s) THEN b ELSE Len(s))

\* s.find(c): 0-based index of the first c, or -1
Find(s, c) ==
    IF \E i \in 1..Len(s) : s[i] = c
    THEN (CHOOSE i \in 1..Len(s) : s[i] = c /\ \A j \in 1..(i - 1) : s[j] # c) - 1
    ELSE -1

\* s.rfind(c): 0-based index of the last c, or -1
RFind(s, c) ==
    IF \E i \in 1..Len(s) : s[i] = c
    THEN (CHOOSE i \in 1..Len(s) : s[i] = c /\ \A j \in (i + 1)..Len(s) : s[j] # c) - 1
    ELSE -1

(***************************************************************************)
(* json.loads: a recursive-descent decoder of JSON text, as the standard   *)
(* library's decoder works.  Number literals are non-negative integers;    *)
(* string escapes are \" \\ \/ \n \t \r.                                   *)
(***************************************************************************)
JsonWhitespace == {" ", "\n", "\t", "\r"}
Digits == {"0", "1", "2", "3", "4", "5", "6", "7", "8", "9"}
ControlChars == {"\n", "\t", "\r"}

DigitVal(c) ==
    CASE c = "0" -> 0 [] c = "1" -> 1 [] c = "2" -> 2 [] c = "3" -> 3
      [] c = "4" -> 4 [] c = "5" -> 5 [] c = "6" -> 6 [] c = "7" -> 7
      [] c = "8" -> 8 [] c = "9" -> 9

\* the character at 1-based position i, "" past the end
At(s, i) == IF i >= 1 /\ i <= Len(s) THEN s[i] ELSE ""

DecodeFail == [ok |-> FALSE, v |-> Unset, i |-> 0]
Decoded(v, i) == [ok |-> TRUE, v |-> v, i |-> i]

RECURSIVE SkipWs(_, _)
SkipWs(s, i) == IF At(s, i) \in JsonWhitespace THEN SkipWs(s, i + 1) ELSE i

\* the number of backslashes right before position k, counted back to lo
RECURSIVE BackslashRun(_, _, _)
BackslashRun(s, lo, k) ==
    IF k > lo /\ s[k - 1] = "\\" THEN 1 + BackslashRun(s, lo, k - 1) ELSE 0

\* position k of a string body that starts at lo is not the second half of an escape
Unescaped(s, lo, k) == BackslashRun(s, lo, k) % 2 = 0

\* the closing quote of the string body that starts at lo: the first quote that
\* no backslash escapes (0 when there is none)
ClosingQuote(s, lo) ==
    LET quotes == {k \in lo..Len(s) : s[k] = "\"" /\ Unescaped(s, lo, k)}
    IN  IF quotes = {} THEN 0 ELSE CHOOSE k \in quotes : \A m \in quotes : k <= m

\* the characters and escapes of the string body a..b decoded (a starts one of them)
RECURSIVE Unescape(_, _, _)
Unescape(s, a, b) ==
    IF a > b THEN [ok |-> TRUE, str |-> <<>>]
    ELSE IF a = b
         THEN IF s[a] \in ControlChars THEN [ok |-> FALSE, str |-> <<>>]
              ELSE [ok |-> TRUE, str |-> <<s[a]>>]
    ELSE IF b = a + 1 /\ s[a] = "\\"
         THEN IF s[b] \in {"\"", "\\", "/"} THEN [ok |-> TRUE, str |-> <<s[b]>>]
              ELSE IF s[b] = "n" THEN [ok |-> TRUE, str |-> <<"\n">>]
              ELSE IF s[b] = "t" THEN [ok |-> TRUE, str |-> <<"\t">>]
              ELSE IF s[b] = "r" THEN [ok |-> TRUE, str |-> <<"\r">>]
              ELSE [ok |-> FALSE, str |-> <<>>]
    ELSE LET half == (a + b + 1) \div 2
             mid == IF Unescaped(s, a, half) THEN half ELSE half + 1
             left == Unescape(s, a, mid - 1)
             right == Unescape(s, mid, b)
         IN  IF left.ok /\ right.ok THEN [ok |-> TRUE, str |-> left.str \o right.str]
             ELSE [ok |-> FALSE, str |-> <<>>]

\* the string literal whose decoded body is known, ending just before position nxt
StringBody(body, nxt) ==
    IF body.ok THEN Decoded(JStr(body.str), nxt) ELSE DecodeFail

\* py_scanstring: the string literal whose body starts at position i (just after
\* the opening quote)
ScanString(s, i) ==
    LET close == ClosingQuote(s, i)
    IN  IF close = 0 THEN DecodeFail
        ELSE StringBody(Unescape(s, i, close - 1), close + 1)

\* the digits after the first one of an integer literal
RECURSIVE ScanDigits(_, _, _)
ScanDigits(s, i, n) ==
    IF At(s, i) \in Digits
    THEN ScanDigits(s, i + 1, 10 * n + DigitVal(At(s, i)))
    ELSE Decoded(JNum(n), i)

\* 0 | [1-9][0-9]*, not followed by a fraction or an exponent
ScanNumber(s, i) ==
    LET r == IF At(s, i) = "0" THEN Decoded(JNum(0), i + 1)
             ELSE ScanDigits(s, i + 1, DigitVal(At(s, i)))
    IN  IF At(s, r.i) \in {".", "e", "E"} THEN DecodeFail ELSE r

ScanLiteral(s, i, word, v) ==
    IF SubSeq(s, i, i + Len(word) - 1) = word /\ i + Len(word) - 1 <= Len(s)
    THEN Decoded(v, i + Len(word))
    ELSE DecodeFail

RECURSIVE ScanValue(_, _), ScanMembers(_, _, _), MemberValue(_, _, _)
RECURSIVE MemberEnd(_, _, _, _), ScanElements(_, _, _), ElementEnd(_, _, _)

\* scan_once: the value starting exactly at position i
ScanValue(s, i) ==
    LET c == At(s, i)
        j == SkipWs(s, i + 1)
    IN  CASE c = "\"" -> ScanString(s, i + 1)
          [] c = "{" /\ At(s, j) = "}" -> Decoded(EmptyDict, j + 1)
          [] c = "{" /\ At(s, j) # "}" -> ScanMembers(s, j, <<>>)
          [] c = "[" /\ At(s, j) = "]" -> Decoded(JArr(<<>>), j + 1)
          [] c = "[" /\ At(s, j) # "]" -> ScanElements(s, j, <<>>)
          [] c = "n" -> ScanLiteral(s, i, <<"n", "u", "l", "l">>, JNull)
          [] c = "t" -> ScanLiteral(s, i, <<"t", "r", "u", "e">>, JBool(TRUE))
          [] c = "f" -> ScanLiteral(s, i, <<"f", "a", "l", "s", "e">>, JBool(FALSE))
          [] c \in Digits -> ScanNumber(s, i)
          [] OTHER -> DecodeFail

\* JSONObject: the members from position i (at the opening quote of a key):
\* a key, a colon, a value, then a comma and the next member, or the brace
ScanMembers(s, i, d) ==
    IF At(s, i) # "\"" THEN DecodeFail ELSE MemberValue(s, d, ScanString(s, i + 1))

\* JSONObject after the key k: the colon and the value
MemberValue(s, d, k) ==
    LET colon == SkipWs(s, k.i)
    IN  IF ~k.ok \/ At(s, colon) # ":" THEN DecodeFail
        ELSE MemberEnd(s, d, k.v.str, ScanValue(s, SkipWs(s, colon + 1)))

\* JSONObject after the value v of the key: the comma or the closing brace
MemberEnd(s, d, key, v) ==
    LET nxt == SkipWs(s, v.i)
        d2 == DictSet(d, key, v.v)
    IN  CASE ~v.ok -> DecodeFail
          [] At(s, nxt) = "}" -> Decoded(JObj(d2), nxt + 1)
          [] At(s, nxt) = "," -> ScanMembers(s, SkipWs(s, nxt + 1), d2)
          [] OTHER -> DecodeFail

\* JSONArray: the elements from position i: a value, then a comma and the next
\* element, or the bracket
ScanElements(s, i, items) == ElementEnd(s, items, ScanValue(s, i))

\* JSONArray after the element v: the comma or the closing bracket
ElementEnd(s, items, v) ==
    LET nxt == SkipWs(s, v.i)
        items2 == Append(items, v.v)
    IN  CASE ~v.ok -> DecodeFail
          [] At(s, nxt) = "]" -> Decoded(JArr(items2), nxt + 1)
          [] At(s, nxt) = "," -> ScanElements(s, SkipWs(s, nxt + 1), items2)
          [] OTHER -> DecodeFail

\* JSONDecoder.decode: the value r read from the start of s has to end the text
WholeText(s, r) ==
    IF r.ok /\ SkipWs(s, r.i) = Len(s) + 1
    THEN [ok |-> TRUE, v |-> r.v]
    ELSE [ok |-> FALSE, v |-> Unset]

\* json.loads(s): ok = FALSE stands for json.JSONDecodeError
JsonLoads(s) == WholeText(s, ScanValue(s, SkipWs(s, 1)))
(***************************************************************************)
(* Text constants.  A backtick cannot be written inside a TLA+ string, so  *)
(* the one-character string "`" is written Backtick.                       *)
(***************************************************************************)
Backtick == "BACKTICK"
Fence == <<Backtick, Backtick, Backtick>>
JsonTag == <<"j", "s", "o", "n">>
\* text_stripped[4:]
TagLen == 4
\* resp.text[:500]
TruncLen == 500

KeyName == <<"n", "a", "m", "e">>
KeyServingSizeG == <<"s", "e", "r", "v", "i", "n", "g", "_", "s", "i", "z", "e", "_", "g">>
KeyPer100g == <<"p", "e", "r", "_", "1", "0", "0", "g">>
KeyPerServing == <<"p", "e", "r", "_", "s", "e", "r", "v", "i", "n", "g">>
KeyNotes == <<"n", "o", "t", "e", "s">>
KeyCandidates == <<"c", "a", "n", "d", "i", "d", "a", "t", "e", "s">>
KeyContent == <<"c", "o", "n", "t", "e", "n", "t">>
KeyParts == <<"p", "a", "r", "t", "s">>
KeyText == <<"t", "e", "x", "t">>

(***************************************************************************)
(* The upstream side: how the model's answers and the provider's response  *)
(* bodies are written down as text.                                        *)
(***************************************************************************)
EscapedChar(c) ==
    CASE c = "\"" -> <<"\\", "\"">>
      [] c = "\\" -> <<"\\", "\\">>
      [] c = "\n" -> <<"\\", "n">>
      [] OTHER -> <<c>>

\* s with its quotes, backslashes and newlines escaped
RECURSIVE Escaped(_)
Escaped(s) ==
    IF Len(s) = 0 THEN <<>>
    ELSE IF Len(s) = 1 THEN EscapedChar(s[1])
    ELSE Escaped(SubSeq(s, 1, Len(s) \div 2)) \o Escaped(SubSeq(s, Len(s) \div 2 + 1, Len(s)))

\* the JSON string literal of s
Quote(s) == <<"\"">> \o Escaped(s) \o <<"\"">>

Member(k, valueText) == Quote(k) \o <<":">> \o valueText

RECURSIVE Joined(_)
Joined(members) ==
    IF members = <<>> THEN <<>>
    ELSE IF Len(members) = 1 THEN members[1]
    ELSE members[1] \o <<",">> \o Joined(Tail(members))

ObjectText(members) == <<"{">> \o Joined(members) \o <<"}">>

\* values the model may give for per_100g: falsy ones, mappings, other types
Per100gValueTexts ==
    { <<"n", "u", "l", "l">>, <<"0">>, <<"\"", "\"">>, <<"[", "]">>, <<"{", "}">>, <<"f", "a",
            "l", "s", "e">>,
      <<"{", "\"", "c", "a", "l", "o", "r", "i", "e", "s", "_", "k", "c", "a", "l", "\"", ":",
              "5", "7", "9", "}">>, <<"5">>, <<"\"", "h", "i", "g", "h", "\"">>, <<"[", "1",
              "]">>, <<"t", "r", "u", "e">> }

\* no per_100g member, or one
Per100gMembers == {<<>>} \cup {<<Member(KeyPer100g, t)>> : t \in Per100gValueTexts}

\* the members before per_100g: none, or a recognized and an unrecognized key
OtherMembers ==
    { <<>>,
      <<Member(KeyName, Quote(<<"O", "a", "t", "s">>)), Member(<<"b", "r", "a", "n",
              "d">>, <<"1">>)>> }

AlmondsText ==
    <<"{", "\"", "n", "a", "m", "e", "\"", ":", "\"", "A", "l", "m", "o", "n", "d", "s", "\"",
            ",", "\"", "s", "e", "r", "v", "i", "n", "g", "_", "s", "i", "z", "e", "_", "g",
            "\"", ":", "2", "8", ",", "\"", "p", "e", "r", "_", "1", "0", "0", "g", "\"", ":",
            "{", "\"", "c", "a", "l", "o", "r", "i", "e", "s", "_", "k", "c", "a", "l", "\"",
            ":", "5", "7", "9", ",", "\"", "p", "r", "o", "t", "e", "i", "n", "_", "g", "\"",
            ":", "2", "1", "}", ",", "\"", "n", "o", "t", "e", "s", "\"", ":", "\"", "a", "p",
            "p", "r", "o", "x", "\"", "}">>

\* answers that are one JSON object
ObjectTexts ==
    {ObjectText(o \o p) : o \in OtherMembers, p \in Per100gMembers}
        \cup { AlmondsText,
               <<"{", " ", "\"", "p", "e", "r", "_", "s", "e", "r", "v", "i", "n", "g", "\"",
                       " ", ":", " ", "[", "1", "]", " ", ",", " ", "\"", "p", "e", "r", "_",
                       "1", "0", "0", "g", "\"", " ", ":", " ", "{", "\"", "z", "i", "n", "c",
                       "_", "m", "g", "\"", ":", "2", "}", " ", "}">>,
               <<"{", "\"", "p", "e", "r", "_", "1", "0", "0", "g", "\"", ":", "n", "u", "l",
                       "l", ",", "\"", "p", "e", "r", "_", "1", "0", "0", "g", "\"", ":", "{",
                       "\"", "i", "r", "o", "n", "_", "m", "g", "\"", ":", "3", "}", ",", "\"",
                       "n", "o", "t", "e", "s", "\"", ":", "\"", "a", "{", "b", "}", "c", "\"",
                       "}">> }

\* a triple-backtick fence around the object, with or without a json tag
FenceWrappers ==
    { [pre |-> Fence \o <<"j", "s", "o", "n", "\n">>, post |-> <<"\n">> \o Fence],
      [pre |-> Fence \o <<"J", "S", "O", "N">>, post |-> Fence],
      [pre |-> <<" ">> \o Fence \o <<"J", "s", "o", "n",
              "\n">>, post |-> <<"\n">> \o Fence \o <<" ", "\n">>],
      [pre |-> Fence \o <<"\n">>, post |-> <<"\n">> \o Fence],
      [pre |-> Fence \o <<Backtick>> \o <<"j", "S", "o", "N",
              " ">>, post |-> Fence \o <<Backtick>>] }

\* text without braces around the object
ProseWrappers ==
    { [pre |-> <<"S", "u", "r", "e", "!", " ">>, post |-> <<" ", "H", "o", "p", "e", " ", "t",
            "h", "a", "t", " ", "h", "e", "l", "p", "s", ".">>],
      [pre |-> <<"1", " ">>, post |-> <<>>],
      [pre |-> <<"j", "s", "o", "n">>, post |-> <<>>],
      [pre |-> Fence \o <<" ", "j", "s", "o", "n", "\n">>, post |-> <<"\n">> \o Fence \o <<" ",
              "d", "o", "n", "e">>],
      [pre |-> <<"[">>, post |-> <<"]">>] }

PlainWrapper == [pre |-> <<>>, post |-> <<>>]

Wrap(w, j) == w.pre \o j \o w.post

\* answers that are no object, or no JSON at all
OtherTexts ==
    { <<"4", "2">>, <<"\"", "h", "i", "\"">>, <<"n", "u", "l", "l">>, <<"[", "1", "]">>, <<"t",
            "r", "u", "e">>, <<>>, <<" ", " ">>,
      <<"n", "o", " ", "j", "s", "o", "n", " ", "h", "e", "r", "e">>, <<"}",
              "{">>, <<"{">>, <<"}">>, <<"{", "b", "a", "d", "}">>, <<"s", "e", "e", " ", "{",
              "b", "a", "d", "}", " ", "o", "k">>,
      <<"{", "\"", "n", "a", "m", "e", "\"", ":", "\"", "O", "a", "t", "s", "\"", "}", " ", "a",
              "n", "d", " ", "{", "\"", "n", "a", "m", "e", "\"", ":", "\"", "R", "i", "c", "e",
              "\"", "}">>,
      Fence \o <<"j", "s", "o", "n", "\n", "4", "2", "\n">> \o Fence }

AnswerTexts ==
    {Wrap(w, j) : w \in {PlainWrapper} \cup FenceWrappers \cup ProseWrappers,
                  j \in ObjectTexts}
        \cup OtherTexts

\* the provider's envelope around an answer given as JSON text t
EnvelopeOf(t) ==
    <<"{", "\"", "c", "a", "n", "d", "i", "d", "a", "t", "e", "s", "\"", ":", "[", "{", "\"",
            "c", "o", "n", "t", "e", "n", "t", "\"", ":", "{", "\"", "p", "a", "r", "t", "s",
            "\"", ":", "[", "{", "\"", "t", "e", "x", "t", "\"", ":">> \o t \o <<"}", "]", "}",
            "}", "]", "}">>

\* 200 bodies whose path candidates[0].content.parts[0].text is missing
MalformedBodies ==
    { <<"{", "}">>, <<"[", "]">>, <<"5">>, <<"n", "u", "l", "l">>, <<"\"", "c", "a", "n", "d",
            "i", "d", "a", "t", "e", "s", "\"">>,
      <<"{", "\"", "c", "a", "n", "d", "i", "d", "a", "t", "e", "s", "\"", ":", "[", "]", "}">>,
      <<"{", "\"", "c", "a", "n", "d", "i", "d", "a", "t", "e", "s", "\"", ":", "{", "\"", "c",
              "o", "n", "t", "e", "n", "t", "\"", ":", "1", "}", "}">>,
      <<"{", "\"", "c", "a", "n", "d", "i", "d", "a", "t", "e", "s", "\"", ":", "\"", "a", "b",
              "c", "\"", "}">>,
      <<"{", "\"", "c", "a", "n", "d", "i", "d", "a", "t", "e", "s", "\"", ":", "[", "{", "\"",
              "c", "o", "n", "t", "e", "n", "t", "\"", ":", "n", "u", "l", "l", "}", "]", "}">>,
      <<"{", "\"", "c", "a", "n", "d", "i", "d", "a", "t", "e", "s", "\"", ":", "[", "{", "\"",
              "c", "o", "n", "t", "e", "n", "t", "\"", ":", "{", "\"", "p", "a", "r", "t", "s",
              "\"", ":", "[", "]", "}", "}", "]", "}">>,
      <<"{", "\"", "c", "a", "n", "d", "i", "d", "a", "t", "e", "s", "\"", ":", "[", "{", "\"",
              "c", "o", "n", "t", "e", "n", "t", "\"", ":", "{", "\"", "p", "a", "r", "t", "s",
              "\"", ":", "[", "{", "}", "]", "}", "}", "]", "}">>,
      <<"{", "\"", "c", "a", "n", "d", "i", "d", "a", "t", "e", "s", "\"", ":", "[", "{", "\"",
              "c", "o", "n", "t", "e", "n", "t", "\"", ":", "{", "\"", "p", "a", "r", "t", "s",
              "\"", ":", "[", "\"", "t", "e", "x", "t", "\"", "]", "}", "}", "]", "}">>,
      <<"{", "\"", "e", "r", "r", "o", "r", "\"", ":", "{", "\"", "c", "o", "d", "e", "\"", ":",
              "4", "0", "0", "}", "}">> }

\* 200 bodies that are no JSON
NotJsonBodies == { <<>>, <<"<", "h", "t", "m", "l", ">">>, <<"{", "\"", "c", "a", "n", "d", "i",
        "d", "a", "t", "e", "s", "\"", ":", "[">> }

\* 200 bodies whose text field is no string
NonStringTextBodies == {EnvelopeOf(t) : t \in {<<"5">>, <<"n", "u", "l", "l">>, <<"{", "\"", "n",
        "a", "m", "e", "\"", ":", "\"", "O", "a", "t", "s", "\"", "}">>}}

OkBodies ==
    {EnvelopeOf(Quote(t)) : t \in AnswerTexts}
        \cup MalformedBodies \cup NotJsonBodies \cup NonStringTextBodies

\* how far past TruncLen the longest error body goes
MaxBodyExtra == 2

DigitChar(n) ==
    CASE n = 0 -> "0" [] n = 1 -> "1" [] n = 2 -> "2" [] n = 3 -> "3"
      [] n = 4 -> "4" [] n = 5 -> "5" [] n = 6 -> "6" [] n = 7 -> "7"
      [] n = 8 -> "8" [] n = 9 -> "9"

\* a body of n characters, each telling its position
LongBody(n) == [i \in 1..n |-> DigitChar(i % 10)]

\* bodies of the non-200 responses
ErrorBodies ==
    { <<>>, <<"r", "a", "t", "e", " ", "l", "i", "m", "i", "t", "e", "d">>, <<"{", "\"", "n",
            "a", "m", "e", "\"", ":", "\"", "O", "a", "t", "s", "\"",
            "}">>, EnvelopeOf(Quote(<<"{", "}">>)) }
        \cup {LongBody(n) : n \in (TruncLen - 1)..(TruncLen + MaxBodyExtra)}

ErrorStatuses == {429, 400, 404, 500, 503, 201}

UpstreamResponses ==
    [status : {200}, text : OkBodies] \cup [status : ErrorStatuses, text : ErrorBodies]

\* str(e) of the requests.RequestException
TransportErrors == { <<"t", "i", "m", "e", "d", " ", "o", "u", "t">>, <<"c", "o", "n", "n", "e",
        "c", "t", "i", "o", "n", " ", "r", "e", "f", "u", "s", "e", "d">> }

\* GEMINI_API_KEY in the process environment: unset, empty, or a key
Environments ==
    { [set |-> FALSE, value |-> ""], [set |-> TRUE, value |-> ""],
      [set |-> TRUE, value |-> "key"] }

\* request bodies: label_type is Optional with a default
Requests ==
    [image_base64 : {<<"a", "G", "k", "=">>},
     label_type : { [set |-> FALSE, value |-> ""], [set |-> TRUE, value |-> ""],
                    [set |-> TRUE, value |-> "vitals"] }]

(***************************************************************************)
(* The steps of call_gemini and parse_label as functions of their inputs.  *)
(***************************************************************************)
\* os.getenv("GEMINI_API_KEY") or ""
ApiKey(e) == IF e.set /\ e.value # "" THEN e.value ELSE ""

\* mutation: `if api_key is None` after `or ""`: never true
CredentialMissingIsNone(k) == FALSE

\* not api_key
CredentialMissing(k) == k = ""

\* req.label_type or "nutrition"
LabelType(r) ==
    IF r.label_type.set /\ r.label_type.value # "" THEN r.label_type.value
    ELSE "nutrition"

NoPayload == [prompt |-> <<>>, mimeType |-> "", data |-> <<>>]

\* the payload: one text part and one inlineData part
Payload(image_b64, label_type) ==
    [prompt |-> <<"SYSTEM_INSTRUCTIONS", " Label type: ", label_type, ". Output pure JSON.">>,
     mimeType |-> "image/jpeg",
     data |-> image_b64]

\* mutation: resp.text without the [:500]
TruncatedNot(body) == body

\* resp.text[:500]
Truncated(body) == Slice(body, 0, TruncLen)

\* v[k] for a str key: KeyError or TypeError unless v is a dict with the key
Subscript(v, k) ==
    IF v.kind = "obj" /\ k \in DOMAIN v.obj
    THEN [ok |-> TRUE, v |-> v.obj[k]]
    ELSE [ok |-> FALSE, v |-> Unset]

\* v[0]: the first item of a list, the first character of a str, else an error
First(v) ==
    IF v.kind = "arr" /\ Len(v.arr) > 0 THEN [ok |-> TRUE, v |-> v.arr[1]]
    ELSE IF v.kind = "str" /\ Len(v.str) > 0 THEN [ok |-> TRUE, v |-> JStr(<<v.str[1]>>)]
    ELSE [ok |-> FALSE, v |-> Unset]

\* the subscripts of the answer text in the envelope, outermost first
EnvelopePath ==
    << [first |-> FALSE, key |-> KeyCandidates], [first |-> TRUE, key |-> <<>>],
       [first |-> FALSE, key |-> KeyContent], [first |-> FALSE, key |-> KeyParts],
       [first |-> TRUE, key |-> <<>>], [first |-> FALSE, key |-> KeyText] >>

\* v subscripted along path, stopping at the first subscript that raises
RECURSIVE Follow(_, _)
Follow(r, path) ==
    IF path = <<>> \/ ~r.ok THEN r
    ELSE Follow(IF Head(path).first THEN First(r.v) ELSE Subscript(r.v, Head(path).key),
                Tail(path))

\* data["candidates"][0]["content"]["parts"][0]["text"]
TextOf(d) == Follow([ok |-> TRUE, v |-> d], EnvelopePath)

\* mutation: text_stripped[5:]
DropTagAndOneMore(s) ==
    IF StartsWith(Lower(s), JsonTag) THEN Slice(s, TagLen + 1, Len(s)) ELSE s

\* if text_stripped.lower().startswith("json"): text_stripped = text_stripped[4:]
DropTag(s) == IF StartsWith(Lower(s), JsonTag) THEN Slice(s, TagLen, Len(s)) ELSE s

\* the cleaning of the answer: strip, the code fence, strip again
Cleaned(t) ==
    LET s == Strip(t, PyWhitespace)
    IN  Strip(IF StartsWith(s, Fence) THEN DropTag(Strip(s, {Backtick})) ELSE s,
              PyWhitespace)

\* mutation: text_stripped.find("}") instead of rfind
LastBraceIsFirst(s) == Find(s, "}")

\* text_stripped.find("{") and text_stripped.rfind("}")
FirstBrace(s) == Find(s, "{")
LastBrace(s) == RFind(s, "}")

\* the fallback of the except branch: the text between the braces
BraceScan(s) ==
    LET start == FirstBrace(s)
        end == LastBrace(s)
    IN  IF start # -1 /\ end # -1 /\ end > start
        THEN LET sub == JsonLoads(Slice(s, start, end + 1))
             IN  IF sub.ok THEN [ok |-> TRUE, v |-> sub.v, msg |-> ""]
                 ELSE [ok |-> FALSE, v |-> Unset,
                       msg |-> "Failed to parse JSON from Gemini output"]
        ELSE [ok |-> FALSE, v |-> Unset, msg |-> "No JSON found in Gemini output"]

\* json.loads(text_stripped), and the brace scan when it raises
Repaired(s) ==
    LET direct == JsonLoads(s)
    IN  IF direct.ok THEN [ok |-> TRUE, v |-> direct.v, msg |-> ""] ELSE BraceScan(s)

\* parsed.get(k)
Get(d, k) == IF k \in DOMAIN d.obj THEN d.obj[k] ELSE JNull

\* mutation: parsed.get("per_100g") without the `or {}`
Per100gNoDefault(d) == Get(d, KeyPer100g)

\* parsed.get("per_100g") or {}
Per100g(d) == IF Truthy(Get(d, KeyPer100g)) THEN Get(d, KeyPer100g) ELSE EmptyDict

\* mutation: parsed["per_100g"] = per_100g before "raw": parsed
RawWithDefault(d) == JObj(DictSet(d.obj, KeyPer100g, Per100g(d)))

\* "raw": parsed
Raw(d) == d

ResponseFields == {"name", "serving_size_g", "per_100g", "per_serving", "notes", "raw"}

\* the dict parse_label returns
Normalized(d) ==
    [name |-> Get(d, KeyName),
     serving_size_g |-> Get(d, KeyServingSizeG),
     per_100g |-> Per100g(d),
     per_serving |-> Get(d, KeyPerServing),
     notes |-> Get(d, KeyNotes),
     raw |-> Raw(d)]

\* the field types of ParseLabelResponse
IsOptionalStr(v) == v.kind \in {"null", "str"}
IsOptionalFloat(v) == v.kind \in {"null", "num"}
IsDict(v) == v.kind = "obj"
IsOptionalDict(v) == v.kind \in {"null", "obj"}

\* response_model=ParseLabelResponse: the returned dict fits the model
Validates(r) ==
    /\ IsOptionalStr(r.name)
    /\ IsOptionalFloat(r.serving_size_g)
    /\ IsDict(r.per_100g)
    /\ IsOptionalDict(r.per_serving)
    /\ IsOptionalStr(r.notes)
    /\ IsOptionalDict(r.raw)

(***************************************************************************)
(* Outcomes of one invocation.                                             *)
(***************************************************************************)
NoBody == <<>>
NoOutcome == [type |-> "none", status |-> 0, msg |-> "", arg |-> <<>>, body |-> NoBody]

\* raise HTTPException(status_code=status, detail=msg + arg)
HTTPException(status, msg, arg) ==
    [type |-> "HTTPException", status |-> status, msg |-> msg, arg |-> arg, body |-> NoBody]

\* an exception no handler of the code catches
Unhandled(exc) ==
    [type |-> "unhandled", status |-> 500, msg |-> exc, arg |-> <<>>, body |-> NoBody]

\* the 200 response with the validated body
Returned(body) ==
    [type |-> "response", status |-> 200, msg |-> "", arg |-> <<>>, body |-> body]

(***************************************************************************)
(* State.                                                                  *)
(***************************************************************************)
VARIABLES
    env,            \* the GEMINI_API_KEY of the process environment
    pc,             \* where the handler is
    req,            \* the ParseLabelRequest
    api_key,        \* call_gemini's api_key
    payload,        \* call_gemini's payload
    calls,          \* requests.post calls made by this invocation
    resp,           \* the upstream response
    data,           \* resp.json()
    text,           \* the model's answer
    text_stripped,  \* the cleaned answer
    parsed,         \* what call_gemini returns
    outcome         \* how the invocation ended

vars == <<env, pc, req, api_key, payload, calls, resp, data, text, text_stripped,
          parsed, outcome>>

NoRequest == [image_base64 |-> <<>>, label_type |-> [set |-> FALSE, value |-> ""]]
NoResponse == [status |-> 0, text |-> <<>>]
NoText == <<"UNSET">>

Idle ==
    /\ pc = "idle"
    /\ req = NoRequest
    /\ api_key = ""
    /\ payload = NoPayload
    /\ calls = 0
    /\ resp = NoResponse
    /\ data = Unset
    /\ text = Unset
    /\ text_stripped = NoText
    /\ parsed = Unset
    /\ outcome = NoOutcome

Init == env \in Environments /\ Idle

\* raise: the invocation ends with the exception o
Raise(o) == pc' = "done" /\ outcome' = o

\* POST /api/parse-label arrives
Receive ==
    /\ pc = "idle"
    /\ \E r \in Requests : req' = r
    /\ pc' = "credential"
    /\ UNCHANGED <<env, api_key, payload, calls, resp, data, text, text_stripped,
                   parsed, outcome>>

\* the credential check
CheckCredential ==
    /\ pc = "credential"
    /\ api_key' = ApiKey(env)
    /\ IF CredentialMissing(ApiKey(env))
       THEN Raise(HTTPException(500, "GEMINI_API_KEY not set on server", <<>>))
       ELSE pc' = "payload" /\ UNCHANGED outcome
    /\ UNCHANGED <<env, req, payload, calls, resp, data, text, text_stripped, parsed>>

\* the payload with the prompt and the image
BuildPayload ==
    /\ pc = "payload"
    /\ payload' = Payload(req.image_base64, LabelType(req))
    /\ pc' = "post"
    /\ UNCHANGED <<env, req, api_key, calls, resp, data, text, text_stripped, parsed,
                   outcome>>

\* mutation: a transport failure is tried once more
PostWithRetry ==
    /\ pc = "post"
    /\ calls' = calls + 1
    /\ \E failed \in BOOLEAN :
          IF failed
          THEN /\ IF calls = 0
                  THEN pc' = "post" /\ UNCHANGED outcome
                  ELSE \E e \in TransportErrors :
                          Raise(HTTPException(502, "Gemini request failed: ", e))
               /\ UNCHANGED resp
          ELSE /\ \E r \in UpstreamResponses : resp' = r
               /\ pc' = "status"
               /\ UNCHANGED outcome
    /\ UNCHANGED <<env, req, api_key, payload, data, text, text_stripped, parsed>>

\* requests.post(...): a response, or a RequestException
Post ==
    /\ pc = "post"
    /\ calls' = calls + 1
    /\ \E failed \in BOOLEAN :
          IF failed
          THEN /\ \E e \in TransportErrors :
                     Raise(HTTPException(502, "Gemini request failed: ", e))
               /\ UNCHANGED resp
          ELSE /\ \E r \in UpstreamResponses : resp' = r
               /\ pc' = "status"
               /\ UNCHANGED outcome
    /\ UNCHANGED <<env, req, api_key, payload, data, text, text_stripped, parsed>>

\* if resp.status_code != 200
CheckStatus ==
    /\ pc = "status"
    /\ IF resp.status # 200
       THEN Raise(HTTPException(resp.status, "Gemini error: ", Truncated(resp.text)))
       ELSE pc' = "json" /\ UNCHANGED outcome
    /\ UNCHANGED <<env, req, api_key, payload, calls, resp, data, text, text_stripped,
                   parsed>>

\* data = resp.json(), outside any try
DecodeBody ==
    /\ pc = "json"
    /\ LET r == JsonLoads(resp.text)
       IN  IF r.ok
           THEN data' = r.v /\ pc' = "unwrap" /\ UNCHANGED outcome
           ELSE Raise(Unhandled("JSONDecodeError")) /\ UNCHANGED data
    /\ UNCHANGED <<env, req, api_key, payload, calls, resp, text, text_stripped, parsed>>

\* text = data["candidates"][0]["content"]["parts"][0]["text"]
Unwrap ==
    /\ pc = "unwrap"
    /\ LET r == TextOf(data)
       IN  IF r.ok
           THEN text' = r.v /\ pc' = "clean" /\ UNCHANGED outcome
           ELSE /\ Raise(HTTPException(500, "Unexpected Gemini response format", <<>>))
                /\ UNCHANGED text
    /\ UNCHANGED <<env, req, api_key, payload, calls, resp, data, text_stripped, parsed>>

\* text.strip() and the code fence; only a str has strip
Clean ==
    /\ pc = "clean"
    /\ IF text.kind = "str"
       THEN text_stripped' = Cleaned(text.str) /\ pc' = "loads" /\ UNCHANGED outcome
       ELSE Raise(Unhandled("AttributeError")) /\ UNCHANGED text_stripped
    /\ UNCHANGED <<env, req, api_key, payload, calls, resp, data, text, parsed>>

\* json.loads and the brace scan; call_gemini returns parsed
Loads ==
    /\ pc = "loads"
    /\ LET r == Repaired(text_stripped)
       IN  IF r.ok
           THEN parsed' = r.v /\ pc' = "normalize" /\ UNCHANGED outcome
           ELSE Raise(HTTPException(500, r.msg, <<>>)) /\ UNCHANGED parsed
    /\ UNCHANGED <<env, req, api_key, payload, calls, resp, data, text, text_stripped>>

\* parse_label builds its dict (only a dict has get); the route validates and
\* serializes it with ParseLabelResponse
Normalize ==
    /\ pc = "normalize"
    /\ IF parsed.kind # "obj" THEN Raise(Unhandled("AttributeError"))
       ELSE IF ~Validates(Normalized(parsed)) THEN Raise(Unhandled("ResponseValidationError"))
       ELSE Raise(Returned(Normalized(parsed)))
    /\ UNCHANGED <<env, req, api_key, payload, calls, resp, data, text, text_stripped,
                   parsed>>

\* the reply is sent; nothing of the invocation is kept
Reply ==
    /\ pc = "done"
    /\ pc' = "idle"
    /\ req' = NoRequest
    /\ api_key' = ""
    /\ payload' = NoPayload
    /\ calls' = 0
    /\ resp' = NoResponse
    /\ data' = Unset
    /\ text' = Unset
    /\ text_stripped' = NoText
    /\ parsed' = Unset
    /\ outcome' = NoOutcome
    /\ UNCHANGED env

Next ==
    \/ Receive
    \/ CheckCredential
    \/ BuildPayload
    \/ Post
    \/ CheckStatus
    \/ DecodeBody
    \/ Unwrap
    \/ Clean
    \/ Loads
    \/ Normalize
    \/ Reply

Spec == Init /\ [][Next]_vars

(***************************************************************************)
(* The error taxonomy and the shape of a response, as the properties use   *)
(* them.                                                                   *)
(***************************************************************************)
Done == pc = "done"

\* Loads has run on the cleaned answer
AfterLoads == pc \in {"normalize", "done"} /\ text_stripped # NoText

IsLabelResponse(o) == o.type = "response" /\ DOMAIN o.body = ResponseFields

ConfigurationError(o) ==
    o.type = "HTTPException" /\ o.status = 500 /\ o.msg = "GEMINI_API_KEY not set on server"

UpstreamUnavailableError(o) ==
    o.type = "HTTPException" /\ o.status = 502 /\ o.msg = "Gemini request failed: "

UpstreamError(o) ==
    o.type = "HTTPException" /\ o.status = resp.status /\ o.msg = "Gemini error: "

MalformedUpstreamResponseError(o) ==
    o.type = "HTTPException" /\ o.status = 500 /\ o.msg = "Unexpected Gemini response format"

JsonExtractionError(o) ==
    /\ o.type = "HTTPException"
    /\ o.status = 500
    /\ o.msg \in {"Failed to parse JSON from Gemini output", "No JSON found in Gemini output"}

CredentialAbsent == ~env.set \/ env.value = ""

\* the text has no "{" ... "}" pair
NoBracePair(s) == Find(s, "{") = -1 \/ RFind(s, "}") = -1 \/ RFind(s, "}") <= Find(s, "{")

FalsyValues == {JNull, JBool(FALSE), JNum(0), JStr(<<>>), JArr(<<>>), EmptyDict}

\* every field of the repaired object other than per_100g fits the response model
OtherFieldsFit(d) ==
    /\ IsOptionalStr(Get(d, KeyName))
    /\ IsOptionalFloat(Get(d, KeyServingSizeG))
    /\ IsOptionalDict(Get(d, KeyPerServing))
    /\ IsOptionalStr(Get(d, KeyNotes))

\* the fenced answers, each with the object text inside the fence
FencedAnswers == {[t |-> Wrap(w, j), j |-> j] : w \in FenceWrappers, j \in ObjectTexts}

\* the answers with prose around the object, each with the object text
ProseAnswers == {[t |-> Wrap(w, j), j |-> j] : w \in ProseWrappers, j \in ObjectTexts}

(***************************************************************************)
(* Properties.                                                             *)
(***************************************************************************)
\* C1: every invocation ends in a LabelResponse with all six fields or in one
\* error of the five-kind taxonomy; no other failure is reachable.
C1_ResponseOrTaxonomyError ==
    Done =>
        \/ IsLabelResponse(outcome)
        \/ ConfigurationError(outcome)
        \/ UpstreamUnavailableError(outcome)
        \/ UpstreamError(outcome)
        \/ MalformedUpstreamResponseError(outcome)
        \/ JsonExtractionError(outcome)

\* C2: an answer text without a "{" ... "}" pair ends in JsonExtractionError,
\* also when the text is valid JSON without braces (a number, a string, null,
\* an array).
C2_NoBracePairIsJsonExtractionError ==
    (Done /\ text.kind = "str" /\ NoBracePair(text.str)) => JsonExtractionError(outcome)

\* C3: in every response per_100g is a mapping: the empty mapping when the
\* repaired object has no per_100g or a falsy one (and then the defaulting
\* yields a response whenever the other fields fit), the repaired object's
\* value otherwise.
C3_Per100gIsAMapping ==
    /\ outcome.type = "response" =>
          /\ "per_100g" \in DOMAIN outcome.body
          /\ outcome.body.per_100g.kind = "obj"
          /\ IF KeyPer100g \notin DOMAIN parsed.obj \/ parsed.obj[KeyPer100g] \in FalsyValues
             THEN outcome.body.per_100g = EmptyDict
             ELSE outcome.body.per_100g = parsed.obj[KeyPer100g]
    /\ ( /\ Done
         /\ parsed.kind = "obj"
         /\ KeyPer100g \notin DOMAIN parsed.obj \/ parsed.obj[KeyPer100g] \in FalsyValues
         /\ OtherFieldsFit(parsed) )
          => outcome.type = "response" /\ outcome.body.per_100g = EmptyDict

\* C3 witness: a response for a repaired object without per_100g
C3_Witness ==
    /\ outcome.type = "response"
    /\ KeyPer100g \notin DOMAIN parsed.obj
    /\ outcome.body.per_100g = EmptyDict

\* C4: with the credential absent or empty the invocation ends in
\* ConfigurationError and issues no network call; the check comes before the
\* payload and the POST.
C4_NoCredentialNoCall ==
    CredentialAbsent =>
        /\ calls = 0
        /\ payload = NoPayload
        /\ resp = NoResponse
        /\ pc \in {"idle", "credential", "done"}
        /\ Done => ConfigurationError(outcome)

\* C4 witness: an invocation that ended with the credential empty
C4_Witness ==
    Done /\ env.set /\ env.value = "" /\ ConfigurationError(outcome) /\ calls = 0

\* C5 as stated: each invocation performs exactly one outbound network call.
C5_ExactlyOneCall == Done => calls = 1

\* C5 as amended: an invocation performs no call when the credential is
\* missing and exactly one otherwise; after any failure there is no second
\* call, and the failure ends the invocation.
C5_OneCallNoRetry ==
    /\ calls \in {0, 1}
    /\ pc \in {"idle", "credential", "payload", "post"} => calls = 0
    /\ pc \in {"status", "json", "unwrap", "clean", "loads", "normalize"} => calls = 1
    /\ Done => calls = (IF ConfigurationError(outcome) THEN 0 ELSE 1)

\* C5 witness: a transport failure ended the invocation after its one call
C5_Witness == Done /\ UpstreamUnavailableError(outcome) /\ calls = 1

\* C6: a non-200 upstream status s ends in an error of status s whose message
\* carries the first min(500, length) characters of the body and nothing
\* beyond; the body is never unwrapped nor parsed.
C6_UpstreamErrorKeepsStatus ==
    (Done /\ resp.status \notin {0, 200}) =>
        /\ outcome.type = "HTTPException"
        /\ outcome.status = resp.status
        /\ outcome.msg = "Gemini error: "
        /\ Len(outcome.arg) = (IF Len(resp.text) < 500 THEN Len(resp.text) ELSE 500)
        /\ \A i \in 1..Len(outcome.arg) : outcome.arg[i] = resp.text[i]
        /\ data = Unset
        /\ text = Unset
        /\ text_stripped = NoText
        /\ parsed = Unset

\* C6 witness: a 429 whose body is longer than 500 characters
C6_Witness ==
    Done /\ resp.status = 429 /\ Len(resp.text) > 500 /\ Len(outcome.arg) = 500

\* C7: a 200 response without the path candidates[0].content.parts[0].text
\* (a body that is no JSON included) ends in MalformedUpstreamResponseError,
\* and repair and normalisation are not run.
C7_MissingPathIsMalformedResponse ==
    ( /\ Done
      /\ resp.status = 200
      /\ ~JsonLoads(resp.text).ok \/ ~TextOf(JsonLoads(resp.text).v).ok )
        => /\ MalformedUpstreamResponseError(outcome)
           /\ text_stripped = NoText
           /\ parsed = Unset

\* C8: the repair of an object text inside a triple-backtick fence, with or
\* without a json tag in any letter case, is the plain parse of the object
\* text; without a fence the cleaned text is the stripped answer, tag included.
C8_FencedObjectParsesAsPlain ==
    /\ (pc \in {"normalize", "done"} /\ text.kind = "str") =>
          \A f \in FencedAnswers :
              text.str = f.t => JsonLoads(f.j).ok /\ parsed = JsonLoads(f.j).v
    /\ (text_stripped # NoText /\ ~StartsWith(Strip(text.str, PyWhitespace), Fence)) =>
          text_stripped = Strip(text.str, PyWhitespace)

\* C8 witness: the repaired object of a fenced, tagged answer
C8_Witness ==
    /\ pc = "normalize"
    /\ text.kind = "str"
    /\ text.str = Fence \o <<"J", "S", "O", "N">> \o AlmondsText \o Fence
    /\ parsed.kind = "obj"
    /\ KeyName \in DOMAIN parsed.obj

\* C9 as stated: the direct parse wins, the brace scan is the fallback, and an
\* object inside brace-free prose is always recovered.
C9_ProseObjectAlwaysRecovered ==
    (pc \in {"normalize", "done"} /\ text.kind = "str") =>
        \A f \in ProseAnswers : text.str = f.t => parsed = JsonLoads(f.j).v

\* C9 as amended: when the cleaned text parses, the result is that parse; only
\* otherwise the text from the first "{" to the last "}" is parsed, and the
\* result is that parse or JsonExtractionError; an object inside brace-free
\* prose is recovered whenever the cleaned text as a whole is no JSON.
C9_OrderedFallback ==
    AfterLoads =>
        LET direct == JsonLoads(text_stripped)
            start == Find(text_stripped, "{")
            end == RFind(text_stripped, "}")
            sub == JsonLoads(SubSeq(text_stripped, start + 1, end + 1))
        IN  IF direct.ok THEN parsed = direct.v
            ELSE /\ IF start # -1 /\ end > start /\ sub.ok
                    THEN parsed = sub.v
                    ELSE parsed = Unset /\ Done /\ JsonExtractionError(outcome)
                 /\ \A f \in ProseAnswers : text.str = f.t => parsed = JsonLoads(f.j).v

\* C9 witness: an object recovered from the prose around it
C9_Witness ==
    /\ pc = "normalize"
    /\ text.kind = "str"
    /\ text.str = <<"S", "u", "r", "e", "!", " ">> \o AlmondsText \o <<" ", "H", "o", "p", "e",
            " ", "t", "h", "a", "t", " ", "h", "e", "l", "p", "s", ".">>
    /\ ~JsonLoads(text_stripped).ok
    /\ parsed = JsonLoads(AlmondsText).v

\* C10: raw is the repaired object unmodified: the same keys with the same
\* values, none added, and a per_100g that was absent or null stays so.
C10_RawIsRepairedObject ==
    outcome.type = "response" =>
        /\ outcome.body.raw.kind = "obj"
        /\ DOMAIN outcome.body.raw.obj = DOMAIN parsed.obj
        /\ \A k \in DOMAIN parsed.obj : outcome.body.raw.obj[k] = parsed.obj[k]
        /\ \A j \in ObjectTexts : text.str = j => outcome.body.raw = JsonLoads(j).v

\* C10 witness: a response whose raw has an unrecognized key and no per_100g
C10_Witness ==
    /\ outcome.type = "response"
    /\ <<"b", "r", "a", "n", "d">> \in DOMAIN outcome.body.raw.obj
    /\ KeyPer100g \notin DOMAIN outcome.body.raw.obj
    /\ outcome.body.per_100g = EmptyDict

====
